---- MODULE Spec2Model ----
(***************************************************************************)
(* A model of lib/internal/task.js: the cancellable Task primitive         *)
(* (Task.start, cancel, setListener, thenDo, finally, Task.withValue) and  *)
(* the internal compose() that backs thenDo, run on one thread with the    *)
(* FIFO process.nextTick queue.                                            *)
(*                                                                         *)
(* Every operation of the file is one atomic action: a JavaScript call     *)
(* runs to completion, listeners included, before anything else happens.   *)
(* The calls made by user code (start, resolve, reject, cancel, thenDo,    *)
(* finally) may come from any callback, so they interleave freely with the *)
(* turns of the nextTick queue.                                            *)
(* A run follows one task a caller starts (the taskA of taskA.thenDo(f))    *)
(* and every task built on it: the composites thenDo returns and the tasks *)
(* the continuation factories start.  Tasks that are not built on one      *)
(* another share no state but the nextTick queue.                          *)
(***************************************************************************)
EXTENDS Integers, Sequences, FiniteSets

\* ------------------------------------------------------------------ bounds

\* Number of task objects (primitive and composite) a run may create.
MaxTasks == 4

\* Number of composites callers build with thenDo (compose builds one more for
\* every task a continuation factory returns).
MaxThenDo == 1

Ids == 1..MaxTasks

\* ------------------------------------------------------ JavaScript values

Undefined == [t |-> "undefined"]
Null      == [t |-> "null"]
NaN       == [t |-> "NaN"]
Num(n)    == [t |-> "number", n |-> n]
Str(x)    == [t |-> "string", s |-> x]

\* The error that marks a cancelled task.
Cancelled == Str("cancelled")

\* `x == null` of JavaScript: true of null and of undefined.
LooseNull(x) == x = Null \/ x = Undefined

\* `v + 1` of JavaScript, as used by the continuation v => Task.withValue(v + 1).
PlusOne(v) ==
  IF v.t = "number" THEN Num(v.n + 1)
  ELSE IF v = Null THEN Num(1)
  ELSE NaN

\* The Error thrown by setListener.
MoreThanOnce == Str("thenDo/finally called more than once")

\* ------------------------------------------------------------------ state

VARIABLES
  kind,          \* per id: "free", "prim" (started by a caller), "next" (started by a
                 \* continuation factory), "comp" (a composite a caller built with
                 \* thenDo) or "link" (the composite line 212 builds)
  finished,      \* per task: Undefined, or [err, result]
  onFinish,      \* per task: the listener set with setListener, or NoListener
  abort,         \* per task: what the starter returned
  cancelled,     \* per composite: the flag of compose
  currentTask,   \* per composite: a task id, or 0 for null / undefined
  firstTask,     \* per composite: the task it was composed on
  onResolve,     \* per composite: the continuation factory for success
  onReject,      \* per composite: the continuation factory for failure
  queue,         \* the process.nextTick queue
  abortCalls,    \* observer: how often each task's abort was invoked
  abortSaw,      \* observer: the task's finished, onFinish and listener calls as
                 \* they were each time its abort was invoked
  listenerCalls, \* observer: the (err, result) pairs each task's listener was called with
  factoryCalls,  \* observer: the factory invocations made for each composite
  cleanupCalls,  \* observer: how often the cleanup registered with finally ran
  uncaught,      \* observer: a deferred callback ended by an exception
  thrown         \* observer: what the last call threw at its caller, or Undefined

vars == <<kind, finished, onFinish, abort, cancelled, currentTask, firstTask,
          onResolve, onReject, queue, abortCalls, abortSaw, listenerCalls,
          factoryCalls, cleanupCalls, uncaught, thrown>>

NoListener == [k |-> "none"]
ComposeListener(c) == [k |-> "compose", c |-> c]
FinallyListener == [k |-> "finally"]

Absent == [k |-> "absent"]
UserFunction == [k |-> "user"]
ResolveCompositeTask(c) == [k |-> "resolveCompositeTask", c |-> c]
RejectCompositeTask(c) == [k |-> "rejectCompositeTask", c |-> c]

\* The state as one record, with three registers for the call in progress:
\* ret, the value a factory returned, exc, the exception in flight, and does,
\* what the abort functions of callers do when this call invokes them.
S ==
  [kind |-> kind, finished |-> finished, onFinish |-> onFinish, abort |-> abort,
   cancelled |-> cancelled, currentTask |-> currentTask, firstTask |-> firstTask,
   onResolve |-> onResolve, onReject |-> onReject, queue |-> queue,
   abortCalls |-> abortCalls, abortSaw |-> abortSaw,
   listenerCalls |-> listenerCalls,
   factoryCalls |-> factoryCalls, cleanupCalls |-> cleanupCalls,
   uncaught |-> uncaught, ret |-> 0, exc |-> Undefined, does |-> "nothing"]

\* The state before anything is started.
Blank ==
  [kind |-> [t \in Ids |-> "free"],
   finished |-> [t \in Ids |-> Undefined],
   onFinish |-> [t \in Ids |-> NoListener],
   abort |-> [t \in Ids |-> "none"],
   cancelled |-> [t \in Ids |-> FALSE],
   currentTask |-> [t \in Ids |-> 0],
   firstTask |-> [t \in Ids |-> 0],
   onResolve |-> [t \in Ids |-> Absent],
   onReject |-> [t \in Ids |-> Absent],
   queue |-> <<>>,
   abortCalls |-> [t \in Ids |-> 0],
   abortSaw |-> [t \in Ids |-> <<>>],
   listenerCalls |-> [t \in Ids |-> <<>>],
   factoryCalls |-> [t \in Ids |-> <<>>],
   cleanupCalls |-> [t \in Ids |-> 0],
   uncaught |-> FALSE, ret |-> 0, exc |-> Undefined, does |-> "nothing"]

Given(s) ==
  /\ kind = s.kind
  /\ finished = s.finished
  /\ onFinish = s.onFinish
  /\ abort = s.abort
  /\ cancelled = s.cancelled
  /\ currentTask = s.currentTask
  /\ firstTask = s.firstTask
  /\ onResolve = s.onResolve
  /\ onReject = s.onReject
  /\ queue = s.queue
  /\ abortCalls = s.abortCalls
  /\ abortSaw = s.abortSaw
  /\ listenerCalls = s.listenerCalls
  /\ factoryCalls = s.factoryCalls
  /\ cleanupCalls = s.cleanupCalls
  /\ uncaught = s.uncaught
  /\ thrown = s.exc

Commit(s) ==
  /\ kind' = s.kind
  /\ finished' = s.finished
  /\ onFinish' = s.onFinish
  /\ abort' = s.abort
  /\ cancelled' = s.cancelled
  /\ currentTask' = s.currentTask
  /\ firstTask' = s.firstTask
  /\ onResolve' = s.onResolve
  /\ onReject' = s.onReject
  /\ queue' = s.queue
  /\ abortCalls' = s.abortCalls
  /\ abortSaw' = s.abortSaw
  /\ listenerCalls' = s.listenerCalls
  /\ factoryCalls' = s.factoryCalls
  /\ cleanupCalls' = s.cleanupCalls
  /\ uncaught' = s.uncaught
  /\ thrown' = s.exc

Allocated(s) == {t \in Ids : s.kind[t] # "free"}

\* ------------------------------------------------- the nextTick queue

StepCallback(c, e, r) == [k |-> "step", c |-> c, err |-> e, result |-> r]
CleanupCallback(t) == [k |-> "cleanup", t |-> t]

RECURSIVE RunCallback(_, _, _)

\* Mutant: the callback runs at once, inside the call that scheduled it.
NextTickInline(s, cb) == RunCallback(s, cb, "returnsNothing")

\* process.nextTick(cb): cb runs on a later turn, in FIFO order.
NextTick(s, cb) == [s EXCEPT !.queue = Append(@, cb)]

\* ------------------------------------------------- Task.start internals

\* Mutant: finally's listener runs cleanup itself instead of deferring it.
ListenerCleanupInline(s, t, e, r) ==
  LET l == s.onFinish[t]
      s1 == [s EXCEPT !.listenerCalls[t] = Append(@, <<e, r>>)]
  IN IF l.k = "compose"
       THEN NextTick([s1 EXCEPT !.currentTask[l.c] = 0], StepCallback(l.c, e, r))
       ELSE [s1 EXCEPT !.cleanupCalls[t] = @ + 1]

\* The callback given to setListener, called with (finished.err, finished.result).
\* compose's listener forgets the first task and defers the rest; finally's
\* listener defers cleanup.
Listener(s, t, e, r) ==
  LET l == s.onFinish[t]
      s1 == [s EXCEPT !.listenerCalls[t] = Append(@, <<e, r>>)]
  IN IF l.k = "compose"
       THEN NextTick([s1 EXCEPT !.currentTask[l.c] = 0], StepCallback(l.c, e, r))
       ELSE NextTick(s1, CleanupCallback(t))

\* onFinish(), the closure setListener stores.
OnFinish(s, t) == Listener(s, t, s.finished[t].err, s.finished[t].result)

\* Mutant: finish without the test of `finished`: a later call overwrites.
FinishAgain(s, t, e, r) ==
  LET s1 == [s EXCEPT !.finished[t] = [err |-> e, result |-> r]]
  IN IF s1.onFinish[t] # NoListener THEN OnFinish(s1, t) ELSE s1

\* finish(err, result).
Finish(s, t, e, r) ==
  IF s.finished[t] # Undefined THEN s
  ELSE LET s1 == [s EXCEPT !.finished[t] = [err |-> e, result |-> r]]
       IN IF s1.onFinish[t] # NoListener THEN OnFinish(s1, t) ELSE s1

RECURSIVE Cancel(_, _)
RECURSIVE CallAbort(_, _)

\* `if (abort) abort();` of cancel.
AbortIfAny(s, t) == IF s.abort[t] # "none" THEN CallAbort(s, t) ELSE s

\* What a caller's abort function may do with the resolve and reject its
\* starter was given.
AbortBehaviours == {"nothing", "resolves", "rejects"}

\* The state with the invocation of t's abort observed.
AbortInvoked(s, t) ==
  [s EXCEPT !.abortCalls[t] = @ + 1,
            !.abortSaw[t] = Append(@, [finished |-> s.finished[t],
                                       onFinish |-> s.onFinish[t],
                                       listenerCalls |-> s.listenerCalls[t]])]

\* The abort function a caller's starter returned.
UserAbort(s, t) ==
  IF s.does = "resolves" THEN Finish(s, t, Null, Num(5))
  ELSE IF s.does = "rejects" THEN Finish(s, t, Str("E"), Null)
  ELSE s

\* Mutant: cancelCompositeTask sets the flag and cancels nothing.
CallAbortNoForward(s, t) ==
  IF s.abort[t] = "cancelCompositeTask"
    THEN [AbortInvoked(s, t) EXCEPT !.cancelled[t] = TRUE]
    ELSE UserAbort(AbortInvoked(s, t), t)

\* cancelCompositeTask for composite t, s being the state with the flag set.
ForwardCancel(s, t) == IF s.currentTask[t] # 0 THEN Cancel(s, s.currentTask[t]) ELSE s

\* abort(): the function the starter returned: a caller's, or a composite's
\* cancelCompositeTask.
CallAbort(s, t) ==
  IF s.abort[t] = "cancelCompositeTask"
    THEN ForwardCancel([AbortInvoked(s, t) EXCEPT !.cancelled[t] = TRUE], t)
    ELSE UserAbort(AbortInvoked(s, t), t)

\* Mutant: cancel invokes abort before it finishes the task.
CancelAbortFirst(s, t) ==
  IF s.finished[t] # Undefined THEN s
  ELSE Finish(AbortIfAny(s, t), t, Cancelled, Null)

\* Mutant: cancel without the test of `finished`.
CancelAlways(s, t) == AbortIfAny(Finish(s, t, Cancelled, Null), t)

\* me.cancel().
Cancel(s, t) ==
  IF s.finished[t] # Undefined THEN s
  ELSE AbortIfAny(Finish(s, t, Cancelled, Null), t)

\* Mutant: setListener stores the callback and does not call it when the task
\* has finished already.
SetListenerNoCall(s, t, l) ==
  IF s.onFinish[t] # NoListener THEN [s EXCEPT !.exc = MoreThanOnce]
  ELSE [s EXCEPT !.onFinish[t] = l]

\* setListener(callback).
SetListener(s, t, l) ==
  IF s.onFinish[t] # NoListener THEN [s EXCEPT !.exc = MoreThanOnce]
  ELSE LET s1 == [s EXCEPT !.onFinish[t] = l]
       IN IF s1.finished[t] # Undefined THEN OnFinish(s1, t) ELSE s1

\* -------------------------------------------------------------- Task.start

NewId(s) == CHOOSE t \in Ids : s.kind[t] = "free" /\ \A u \in Ids : u < t => s.kind[u] # "free"

\* A starter function doSomething, by what it does while Task.start calls it:
\* the calls of resolve / reject it makes, whether it then throws, and whether
\* it returns an abort function.
Starter(sync, throws, returnsAbort) ==
  [sync |-> sync, throws |-> throws, returnsAbort |-> returnsAbort]

CallResolve(v) == [k |-> "resolve", v |-> v]
CallReject(e) == [k |-> "reject", v |-> e]

\* The resolve and reject functions Task.start hands to the starter.
Resolve(s, t, v) == Finish(s, t, Null, v)
Reject(s, t, e) == Finish(s, t, e, Null)

RECURSIVE RunSync(_, _, _)
RunSync(s, t, calls) ==
  IF calls = <<>> THEN s
  ELSE LET c == Head(calls)
           s1 == IF c.k = "resolve" THEN Resolve(s, t, c.v) ELSE Reject(s, t, c.v)
       IN RunSync(s1, t, Tail(calls))

\* Mutant: Task.start without its try / catch: what the starter throws leaves
\* Task.start as an exception.
ReturnedNoCatch(s, t, st) ==
  IF st.throws # Undefined THEN [s EXCEPT !.exc = st.throws]
  ELSE [s EXCEPT !.abort[t] = IF st.returnsAbort THEN "user" ELSE "none"]

\* The end of the try block of Task.start, s being the state the starter's
\* calls left: what the starter throws is caught and finishes the task, and
\* then no abort function was returned.
Returned(s, t, st) ==
  IF st.throws # Undefined THEN Finish(s, t, st.throws, Null)
  ELSE [s EXCEPT !.abort[t] = IF st.returnsAbort THEN "user" ELSE "none"]

\* Task.start(doSomething) making task t: the starter runs at once.
TaskStartAs(s, t, st) ==
  [Returned(RunSync([s EXCEPT !.kind[t] = "prim"], t, st.sync), t, st) EXCEPT !.ret = t]

\* Task.start(doSomething).
TaskStart(s, st) == TaskStartAs(s, NewId(s), st)

\* The starter Task.withValue(result) passes to Task.start.
WithValueStarter(v) == Starter(<<CallResolve(v)>>, Undefined, FALSE)

\* ---------------------------------------------------------------- compose

\* compose(firstTask, setFirstTaskListener, onResolve, onReject), up to the
\* return of the composite: the composite is started with cancelCompositeTask
\* as its abort, and the listener is set on the first task. When setListener
\* throws, the composite just made is unreachable.
ComposeAs(s, c, first, f, g) ==
  SetListener([s EXCEPT !.kind[c] = "comp", !.abort[c] = "cancelCompositeTask",
                        !.currentTask[c] = first, !.firstTask[c] = first,
                        !.onResolve[c] = f, !.onReject[c] = g],
              first, ComposeListener(c))

\* What compose leaves: s2 with the composite c returned, or, when setListener
\* threw, the state s of before with the exception.
ComposeResult(s, s2, c) ==
  IF s2.exc # Undefined THEN [s EXCEPT !.exc = s2.exc] ELSE [s2 EXCEPT !.ret = c]

Compose(s, first, f, g) ==
  ComposeResult(s, ComposeAs(s, NewId(s), first, f, g), NewId(s))

\* me.thenDo(onResolve, onReject).
ThenDo(s, t, f, g) == Compose(s, t, f, g)

\* Mutant: a second listener replaces the first instead of being refused.
FinallyReplaces(s, t) ==
  LET s1 == [s EXCEPT !.onFinish[t] = FinallyListener]
  IN IF s1.finished[t] # Undefined THEN OnFinish(s1, t) ELSE s1

\* me.finally(cleanup).
Finally(s, t) == SetListener(s, t, FinallyListener)

\* The continuation factories callers pass to thenDo, by what one does when
\* it is called.
UserFactories ==
  {"returnsNothing", "returnsTask", "withValuePlusOne", "throws",
   "cancelsThenTask", "taskWithFinally"}

\* A starter that leaves the task running and returns an abort function.
PendingStarter == Starter(<<>>, Undefined, TRUE)

\* What the factories throw.
Boom == Str("boom")

\* onResolve(firstResult) / onReject(firstErr) for composite c; f is what the
\* function does, when it is a caller's. The factories compose itself passes
\* (line 212) are the resolve and reject of the outer composite, which return
\* undefined.
\* The task just started is one a continuation factory made.
AsNext(s) == [s EXCEPT !.kind[s.ret] = "next"]

\* A continuation factory calls Task.start.
FactoryTask(s, st) == AsNext(TaskStart(s, st))

\* A continuation factory calls finally on the task it just started, and
\* returns that task.
WithFinally(s) == [Finally(s, s.ret) EXCEPT !.ret = s.ret]

CallFactory(s, c, which, fac, arg, f) ==
  LET s0 == [s EXCEPT !.factoryCalls[c] =
               Append(@, [which |-> which, arg |-> arg,
                          does |-> IF fac.k = "user" THEN f ELSE fac.k])]
  IN CASE fac.k = "resolveCompositeTask" -> [Resolve(s0, fac.c, arg) EXCEPT !.ret = 0]
       [] fac.k = "rejectCompositeTask" -> [Reject(s0, fac.c, arg) EXCEPT !.ret = 0]
       [] fac.k = "user" /\ f = "returnsNothing" -> [s0 EXCEPT !.ret = 0]
       [] fac.k = "user" /\ f = "throws" -> [s0 EXCEPT !.exc = Boom]
       [] fac.k = "user" /\ f = "returnsTask" -> FactoryTask(s0, PendingStarter)
       [] fac.k = "user" /\ f = "withValuePlusOne" ->
            FactoryTask(s0, WithValueStarter(PlusOne(arg)))
       [] fac.k = "user" /\ f = "cancelsThenTask" ->
            FactoryTask(Cancel(s0, c), PendingStarter)
       [] fac.k = "user" /\ f = "taskWithFinally" ->
            WithFinally(FactoryTask(s0, PendingStarter))

\* Mutant: the test looks at the composite's flag only.
IsCancelledFlagOnly(s, c, firstErr) == s.cancelled[c]

\* The test of line 185: the composite was cancelled, or the first task was.
IsCancelled(s, c, firstErr) == s.cancelled[c] \/ firstErr = Cancelled

\* The composite line 212 builds is held by nobody: its return value is dropped.
Link(s) == IF s.exc = Undefined THEN [s EXCEPT !.kind[s.ret] = "link"] ELSE s

\* Mutant: a factory that returns no task leaves the composite as it is.
SubscribeNoResolve(s, c) ==
  IF s.currentTask[c] # 0
    THEN Link(ThenDo(s, s.currentTask[c], ResolveCompositeTask(c), RejectCompositeTask(c)))
    ELSE s

\* Lines 211-215, s being the state with the factory's return value recorded
\* as currentTask.
Subscribe(s, c) ==
  IF s.currentTask[c] # 0
    THEN Link(ThenDo(s, s.currentTask[c], ResolveCompositeTask(c), RejectCompositeTask(c)))
    ELSE Resolve(s, c, Undefined)

\* Mutant: the step without its try / catch: what the factory throws leaves
\* the deferred callback as an exception.
AfterFactoryNoCatch(s, c) ==
  IF s.exc # Undefined THEN s
  ELSE Subscribe([s EXCEPT !.currentTask[c] = s.ret], c)

\* Lines 193 / 200 and 206-215, s being the state the factory call left: what
\* the factory threw rejects the composite; what it returned becomes
\* currentTask.
AfterFactory(s, c) ==
  IF s.exc # Undefined THEN Reject([s EXCEPT !.exc = Undefined], c, s.exc)
  ELSE Subscribe([s EXCEPT !.currentTask[c] = s.ret], c)

\* The function compose's listener hands to process.nextTick (lines 184-216).
Step(s, c, firstErr, firstResult, f) ==
  IF IsCancelled(s, c, firstErr) THEN Reject(s, c, Cancelled)
  ELSE IF LooseNull(firstErr)
    THEN IF s.onResolve[c] # Absent
           THEN AfterFactory(CallFactory(s, c, "onResolve", s.onResolve[c], firstResult, f), c)
           ELSE Resolve(s, c, firstResult)
    ELSE IF s.onReject[c] # Absent
           THEN AfterFactory(CallFactory(s, c, "onReject", s.onReject[c], firstErr, f), c)
           ELSE Reject(s, c, firstErr)

\* One turn of the nextTick queue: the callback at its head runs.
RunCallback(s, cb, f) ==
  IF cb.k = "step" THEN Step(s, cb.c, cb.err, cb.result, f)
  ELSE [s EXCEPT !.cleanupCalls[cb.t] = @ + 1]

\* ------------------------------------------------------------ id budget

\* Ids a factory may take when it runs: the task it returns and the composite
\* line 212 builds on it.
Need(fac) == IF fac.k = "user" THEN 2 ELSE 0

Max(a, b) == IF a >= b THEN a ELSE b

\* Composite c has not run its deferred step yet.
StepPending(s, c) ==
  /\ s.kind[c] \in {"comp", "link"}
  /\ \/ s.finished[s.firstTask[c]] = Undefined
     \/ \E i \in 1..Len(s.queue) : s.queue[i].k = "step" /\ s.queue[i].c = c

RECURSIVE Reserved(_, _)
Reserved(s, ids) ==
  IF ids = {} THEN 0
  ELSE LET c == CHOOSE x \in ids : TRUE
       IN (IF StepPending(s, c) THEN Max(Need(s.onResolve[c]), Need(s.onReject[c])) ELSE 0)
          + Reserved(s, ids \ {c})

FreeIds(s) == MaxTasks - Cardinality(Allocated(s)) - Reserved(s, Ids)

\* ---------------------------------------------------------------- inputs

Values == {Num(5)}
Errors == {Str("E"), Null, Cancelled}

Starters ==
  {Starter(<<>>, Undefined, a) : a \in BOOLEAN}
  \cup {WithValueStarter(v) : v \in Values}
  \cup {Starter(<<CallReject(Str("E"))>>, Undefined, FALSE)}
  \cup {Starter(<<>>, Boom, FALSE), Starter(<<CallResolve(Num(5))>>, Boom, FALSE),
        Starter(<<CallResolve(Num(5)), CallReject(Str("E"))>>, Undefined, TRUE)}

\* What a caller passes as onResolve and as onReject: nothing, or a function.
Factories == {Absent, UserFunction}

\* --------------------------------------------------------------- actions

\* Nothing is started.
Init == Given(Blank)

\* A caller calls Task.start(doSomething): the first task of the run.
DoStart(st) ==
  /\ Allocated(S) = {}
  /\ Commit(TaskStart(S, st))

\* The starter of a primitive task calls resolve(v) later on.
DoResolve(t, v) ==
  /\ kind[t] \in {"prim", "next"}
  /\ Commit(Resolve(S, t, v))

\* The starter of a primitive task calls reject(e) later on.
DoReject(t, e) ==
  /\ kind[t] \in {"prim", "next"}
  /\ Commit(Reject(S, t, e))

\* The tasks callers hold: the ones they started, the ones their factories
\* started and the composites thenDo returned to them. The composite line 212
\* builds is returned to nobody.
Held == {t \in Ids : kind[t] \in {"prim", "next", "comp"}}

\* t.cancel() invokes the abort function of a caller: t's own, or the one of
\* the task a composite forwards the cancel to.
RECURSIVE ReachesUserAbort(_, _)
ReachesUserAbort(s, t) ==
  /\ s.finished[t] = Undefined
  /\ \/ s.abort[t] = "user"
     \/ /\ s.abort[t] = "cancelCompositeTask"
        /\ s.currentTask[t] # 0
        /\ ReachesUserAbort(s, s.currentTask[t])

\* A caller calls task.cancel(); a is what the abort function of a caller
\* does, when the call invokes one.
CancelDoing(t, a) ==
  /\ t \in Held
  /\ ReachesUserAbort(S, t) \/ a = "nothing"
  /\ Commit(Cancel([S EXCEPT !.does = a], t))

DoCancel(t) == \E a \in AbortBehaviours : CancelDoing(t, a)

\* A caller calls task.thenDo(f, g). The composite compose starts before
\* setListener throws is dropped with the exception, and takes no id for good.
DoThenDo(t, f, g) ==
  /\ t \in Held
  /\ IF onFinish[t] # NoListener
       THEN Allocated(S) # Ids
       ELSE /\ FreeIds(S) >= 1 + Max(Need(f), Need(g))
            /\ Cardinality({c \in Ids : kind[c] = "comp"}) < MaxThenDo
  /\ Commit(ThenDo(S, t, f, g))

\* A caller calls task.finally(cleanup).
DoFinally(t) ==
  /\ t \in Held
  /\ Commit(Finally(S, t))

\* The callback calls a caller's continuation factory when it runs.
CallsUserFactory(s, cb) ==
  /\ cb.k = "step"
  /\ ~IsCancelled(s, cb.c, cb.err)
  /\ (IF LooseNull(cb.err) THEN s.onResolve[cb.c] ELSE s.onReject[cb.c]) = UserFunction

\* The end of a turn: an exception the callback let escape is uncaught.
Escaped(s) == [s EXCEPT !.uncaught = @ \/ s.exc # Undefined]

\* The next deferred callback runs; f is what the caller's continuation
\* factory does, when the callback calls one. An exception the callback lets
\* escape is uncaught.
Tick(f) ==
  /\ queue # <<>>
  /\ CallsUserFactory(S, Head(queue)) \/ f = "returnsNothing"
  /\ Commit(Escaped(RunCallback([S EXCEPT !.queue = Tail(@)], Head(queue), f)))

Next ==
  \/ \E st \in Starters : DoStart(st)
  \/ \E t \in Ids, v \in Values : DoResolve(t, v)
  \/ \E t \in Ids, e \in Errors : DoReject(t, e)
  \/ \E t \in Ids : DoCancel(t)
  \/ \E t \in Ids, f \in Factories, g \in Factories : DoThenDo(t, f, g)
  \/ \E t \in Ids : DoFinally(t)
  \/ \E f \in UserFactories : Tick(f)

Spec == Init /\ [][Next]_vars

\* The nextTick queue always runs the callbacks it holds.
FairSpec == Spec /\ WF_vars(\E f \in UserFactories : Tick(f))

\* ================================================================ claims

Outcome(e, r) == [err |-> e, result |-> r]
Composites == {c \in Ids : kind[c] \in {"comp", "link"}}
StepQueued(c) == \E i \in 1..Len(queue) : queue[i].k = "step" /\ queue[i].c = c
SomeTick == \E f \in UserFactories : Tick(f)

\* The deferred step of composite c has run.
StepRan(c) ==
  /\ kind[c] \in {"comp", "link"}
  /\ listenerCalls[firstTask[c]] # <<>>
  /\ ~StepQueued(c)

\* The outcome the first completion of a starter writes while Task.start runs
\* it: its first call of resolve or reject, else what it throws.
FirstCompletion(st) ==
  IF st.sync # <<>>
    THEN IF Head(st.sync).k = "resolve" THEN Outcome(Null, Head(st.sync).v)
         ELSE Outcome(Head(st.sync).v, Null)
    ELSE IF st.throws # Undefined THEN Outcome(st.throws, Null) ELSE Undefined

\* C1: the outcome of a task is written at most once. Once a task is Finished,
\* no step (resolve, reject, cancel, a deferred step) changes its (err, result)
\* pair or makes it Running again; and Task.start leaves the task with the
\* outcome of the starter's first completion, whatever the starter calls or
\* throws after it.
OutcomeWrittenOnce ==
  [][/\ \A t \in Ids : finished[t] # Undefined => finished'[t] = finished[t]
     /\ \A st \in Starters : DoStart(st) => finished'[1] = FirstCompletion(st)]_vars

\* C1 witness: a composite was cancelled, and the composite built on its
\* continuation task later called its resolve with 5: the outcome is still
\* ('cancelled', null).
LateResolveIgnored ==
  \E i \in Ids :
    /\ kind[i] = "link"
    /\ factoryCalls[i] # <<>>
    /\ factoryCalls[i][1].does = "resolveCompositeTask"
    /\ factoryCalls[i][1].arg = Num(5)
    /\ finished[onResolve[i].c] = Outcome(Cancelled, Null)

\* C2: cancellation forwarding. For a composite c on first task a, a call of
\* c.cancel() on the Running c
\*  - while a is Running: invokes a's abort (when a has one), and leaves a and
\*    c Finished with 'cancelled';
\*  - after a finished, with a continuation task n recorded that is Running:
\*    invokes n's abort (when n has one) and not a's, and leaves c Finished
\*    with 'cancelled'.
\* (c.cancel() on a Finished c does nothing, which is C7.)
CancelForwarded ==
  [][\A c \in Ids :
       (kind[c] = "comp" /\ finished[c] = Undefined /\ DoCancel(c)) =>
         LET a == firstTask[c]
             n == currentTask[c]
         IN /\ finished'[c] = Outcome(Cancelled, Null)
            /\ finished[a] = Undefined =>
                 /\ n = a
                 /\ abortCalls'[a] = abortCalls[a] + (IF abort[a] # "none" THEN 1 ELSE 0)
                 /\ finished'[a] = Outcome(Cancelled, Null)
            /\ (finished[a] # Undefined /\ n # 0 /\ finished[n] = Undefined) =>
                 /\ abortCalls'[n] = abortCalls[n] + (IF abort[n] # "none" THEN 1 ELSE 0)
                 /\ finished'[n] = Outcome(Cancelled, Null)
                 /\ abortCalls'[a] = abortCalls[a]
                 /\ finished'[a] = finished[a]]_vars

\* C2 (first half, without the premise that c is Running): while the first
\* task is Running the composite on it is Running too, so every c.cancel()
\* made then is one on a Running composite.
RunningFirstTaskRunningComposite ==
  \A c \in Composites : finished[firstTask[c]] = Undefined => finished[c] = Undefined

\* C2 witness: the first task resolved, the factory returned a Running task
\* with an abort function, and c.cancel() reached that task and not the first.
CancelReachedContinuation ==
  \E c \in Ids :
    /\ kind[c] = "comp"
    /\ factoryCalls[c] # <<>> /\ factoryCalls[c][1].does = "returnsTask"
    /\ cancelled[c]
    /\ finished[c] = Outcome(Cancelled, Null)
    /\ currentTask[c] # 0
    /\ abortCalls[currentTask[c]] = 1
    /\ finished[currentTask[c]] = Outcome(Cancelled, Null)
    /\ abortCalls[firstTask[c]] = 0
    /\ finished[firstTask[c]] = Outcome(Null, Num(5))

\* C3 (as claimed): a composite that subscribed to the task its factory
\* returned finishes with that task's outcome, however the task finished.
\* Stated on the states where every deferred callback has run: the composite
\* was not cancelled, its continuation task is Finished and the queue is
\* empty, so the composite is Finished with the same (err, result).
CompositeFollowsContinuation ==
  \A c \in Ids :
    (/\ kind[c] = "comp"
     /\ ~cancelled[c]
     /\ currentTask[c] # 0
     /\ finished[firstTask[c]] # Undefined
     /\ onFinish[currentTask[c]].k = "compose"
     /\ finished[currentTask[c]] # Undefined
     /\ queue = <<>>)
    => finished[c] = finished[currentTask[c]]

\* C3, the part the code keeps (a probe, not the claim): the same, for a
\* continuation task whose error is not 'cancelled'.
CompositeFollowsUncancelledContinuation ==
  \A c \in Ids :
    (/\ kind[c] = "comp"
     /\ ~cancelled[c]
     /\ currentTask[c] # 0
     /\ finished[firstTask[c]] # Undefined
     /\ onFinish[currentTask[c]].k = "compose"
     /\ finished[currentTask[c]] # Undefined
     /\ finished[currentTask[c]].err # Cancelled
     /\ queue = <<>>)
    => finished[c] = finished[currentTask[c]]

\* Task.withValue(5).thenDo(v => Task.withValue(v + 1)) has resolved with 6.
ResolvedWithSix ==
  \E c \in Ids :
    /\ kind[c] = "comp"
    /\ finished[firstTask[c]] = Outcome(Null, Num(5))
    /\ factoryCalls[c] # <<>> /\ factoryCalls[c][1].does = "withValuePlusOne"
    /\ finished[c] = Outcome(Null, Num(6))

\* C4: a continuation factory is called only by a deferred step that was
\* already at the head of the nextTick queue before the step began: not by
\* the call in which the first task finishes, and not by thenDo, also when the
\* first task had finished before thenDo. Until that deferred step runs, the
\* composite is Running unless it was cancelled.
FactoryOnlyOnDeferredTurn ==
  /\ [](\A c \in Composites :
          (StepPending(S, c) /\ ~cancelled[c]) =>
             finished[c] = Undefined /\ factoryCalls[c] = <<>>)
  /\ [][\A c \in Ids :
          factoryCalls'[c] # factoryCalls[c] =>
            /\ kind[c] \in {"comp", "link"}
            /\ finished[firstTask[c]] # Undefined
            /\ queue # <<>>
            /\ Head(queue).k = "step" /\ Head(queue).c = c
            /\ SomeTick]_vars

\* C4 witness: thenDo(f) was called on a task that had resolved already; the
\* composite is Running, f has not been called, and the step waits in the queue.
ThenDoOnResolvedTaskReturned ==
  \E c \in Ids :
    /\ kind[c] = "comp"
    /\ onResolve[c] = UserFunction
    /\ finished[firstTask[c]] = Outcome(Null, Num(5))
    /\ finished[c] = Undefined
    /\ factoryCalls[c] = <<>>
    /\ StepQueued(c)

\* C5 (as claimed, from the comments of the file): the continuations given to
\* thenDo are always called; when the task is cancelled they are called with
\* 'cancelled'. Stated on the states where every deferred callback has run:
\* for a composite given both continuations whose first task finished with
\* 'cancelled', a continuation has been called.
ContinuationAlwaysCalled ==
  \A c \in Ids :
    (/\ kind[c] = "comp"
     /\ onResolve[c] = UserFunction /\ onReject[c] = UserFunction
     /\ finished[firstTask[c]] = Outcome(Cancelled, Null)
     /\ queue = <<>>)
    => /\ factoryCalls[c] # <<>>
       /\ factoryCalls[c][1].arg = Cancelled

AbortOnceWhileRunning ==
  /\ [](\A t \in Ids : abortCalls[t] <= 1)
  /\ [][\A t \in Ids :
          /\ abortCalls'[t] # abortCalls[t] =>
               /\ finished[t] = Undefined
               /\ finished'[t] = Outcome(Cancelled, Null)
               /\ abort[t] # "none"
               /\ abortCalls'[t] = abortCalls[t] + 1
          /\ (t \in Held /\ finished[t] # Undefined /\ DoCancel(t)) =>
               abortCalls' = abortCalls /\ finished' = finished]_vars

\* C7 witness: a continuation task with an abort function was resolved, and
\* then the composite was cancelled and forwarded cancel() to it: its abort
\* was not invoked and its outcome is the one resolve wrote.
CancelAfterFinishIgnored ==
  \E c \in Ids :
    /\ kind[c] = "comp"
    /\ factoryCalls[c] # <<>> /\ factoryCalls[c][1].does = "returnsTask"
    /\ cancelled[c]
    /\ currentTask[c] # 0
    /\ abort[currentTask[c]] = "user"
    /\ finished[currentTask[c]] = Outcome(Null, Num(5))
    /\ abortCalls[currentTask[c]] = 0

\* C8: in every state, a task's listener has been called exactly once, with
\* the task's (err, result), if the task is Finished and has a listener, and
\* has not been called if the task is Running or has no listener. Calls are
\* atomic steps, so the listener is called inside the call that finishes the
\* task or, for a task Finished before, inside the call that sets the listener.
ListenerCalledOnce ==
  \A t \in Ids :
    listenerCalls[t] =
      IF onFinish[t] # NoListener /\ finished[t] # Undefined
        THEN << <<finished[t].err, finished[t].result>> >>
        ELSE <<>>

\* C8 witness: a listener was set on a task Finished before, and was called
\* in that call with the outcome: the deferred step it scheduled holds it.
ListenerCalledOnAttach ==
  /\ finished[1] = Outcome(Str("boom"), Null)
  /\ onFinish[1] # NoListener
  /\ listenerCalls[1] = << <<Str("boom"), Null>> >>

\* C9: thenDo or finally on a task that has a listener (Running or Finished)
\* throws, changes no task, schedules nothing and calls no listener; and no
\* listener is ever called twice.
SecondListenerRefused ==
  /\ [](\A t \in Ids : Len(listenerCalls[t]) <= 1)
  /\ [][\A t \in Ids :
       (t \in Held /\ onFinish[t] # NoListener
        /\ (DoFinally(t) \/ \E f \in Factories, g \in Factories : DoThenDo(t, f, g))) =>
         /\ thrown' = MoreThanOnce
         /\ UNCHANGED <<kind, finished, onFinish, abort, cancelled, currentTask,
                        firstTask, onResolve, onReject, queue, abortCalls,
                        abortSaw, listenerCalls, factoryCalls, cleanupCalls,
                        uncaught>>]_vars

\* C9 witness: a caller's thenDo or finally threw on a Finished task whose
\* first listener had been called once.
SecondListenerThrew ==
  /\ thrown = MoreThanOnce
  /\ ~uncaught
  /\ \E t \in Held : finished[t] # Undefined /\ Len(listenerCalls[t]) = 1

\* Number of times cleanup of task t waits in the queue.
CleanupsQueued(t) == Cardinality({i \in 1..Len(queue) : queue[i] = CleanupCallback(t)})

\* C10: for a task with finally(cleanup): cleanup is scheduled exactly once,
\* when the task is Finished and finally has been called, and runs only as a
\* deferred callback taken from the head of the queue: in every state, the
\* runs of cleanup plus its entries in the queue are 1 if the task is Finished
\* and has the finally listener, 0 otherwise; and cleanup runs only in a turn
\* of the queue that began with cleanup at its head.
CleanupDeferredOnce ==
  /\ [](\A t \in Ids :
          cleanupCalls[t] + CleanupsQueued(t) =
            IF onFinish[t] = FinallyListener /\ finished[t] # Undefined THEN 1 ELSE 0)
  /\ [][\A t \in Ids :
          cleanupCalls'[t] # cleanupCalls[t] =>
            /\ queue # <<>> /\ Head(queue) = CleanupCallback(t)
            /\ finished[t] # Undefined
            /\ SomeTick
            /\ cleanupCalls'[t] = cleanupCalls[t] + 1]_vars

\* C10, liveness: once a task with finally(cleanup) is Finished, cleanup runs.
CleanupEventuallyRuns ==
  \A t \in Ids :
    (onFinish[t] = FinallyListener /\ finished[t] # Undefined) ~> (cleanupCalls[t] = 1)

\* C10 witness: cleanup has run for a cancelled task.
CleanupRanAfterCancel ==
  \E t \in Ids :
    /\ onFinish[t] = FinallyListener
    /\ finished[t] = Outcome(Cancelled, Null)
    /\ cleanupCalls[t] = 1

\* A primitive task finished through reject(e), or through its starter
\* throwing e: resolve is called on primitive tasks with the values of Values
\* only, none of which is null.
RejectedWith(t, e) == kind[t] \in {"prim", "next"} /\ finished[t] = Outcome(e, Null)

\* A task finished through resolve(v), v a value of Values.
ResolvedWith(t, v) == finished[t] = Outcome(Null, v)

\* C11 (as claimed): when the first task of an uncancelled composite has
\* finished, the matching continuation is absent and the deferred step has
\* run, the composite has the first task's outcome and no continuation was
\* called: after resolve(v) with onResolve absent it is resolved with v; after
\* reject(e), e any error but 'cancelled', with onReject absent it is rejected
\* with e, and a supplied onResolve was not called.
PassThroughWhenAbsent ==
  \A c \in Ids :
    (kind[c] = "comp" /\ ~cancelled[c] /\ StepRan(c)) =>
      LET a == firstTask[c]
      IN /\ \A v \in Values :
              (ResolvedWith(a, v) /\ onResolve[c] = Absent) =>
                 finished[c] = Outcome(Null, v) /\ factoryCalls[c] = <<>>
         /\ \A e \in Errors \ {Cancelled} :
              (RejectedWith(a, e) /\ onReject[c] = Absent) =>
                 finished[c] = Outcome(e, Null) /\ factoryCalls[c] = <<>>

\* C11, the part the code keeps (a probe, not the claim): the same, for the
\* errors that are neither null nor undefined.
PassThroughPresentError ==
  \A c \in Ids :
    (kind[c] = "comp" /\ ~cancelled[c] /\ StepRan(c)) =>
      LET a == firstTask[c]
      IN /\ \A v \in Values :
              (ResolvedWith(a, v) /\ onResolve[c] = Absent) =>
                 finished[c] = Outcome(Null, v) /\ factoryCalls[c] = <<>>
         /\ \A e \in {x \in Errors : ~LooseNull(x)} \ {Cancelled} :
              (RejectedWith(a, e) /\ onReject[c] = Absent) =>
                 finished[c] = Outcome(e, Null) /\ factoryCalls[c] = <<>>

\* taskA.thenDo(onResolveFn), taskA rejected with "E": the composite is
\* rejected with "E" and onResolveFn was not called.
RejectedWithEPassedThrough ==
  \E c \in Ids :
    /\ kind[c] = "comp"
    /\ onResolve[c] = UserFunction /\ onReject[c] = Absent
    /\ RejectedWith(firstTask[c], Str("E"))
    /\ StepRan(c)
    /\ factoryCalls[c] = <<>>
    /\ finished[c] = Outcome(Str("E"), Null)

\* C12: a deferred step whose continuation factory (onResolve or onReject)
\* throws leaves the composite Finished with the thrown value as error and no
\* value, records no continuation task and starts none, and lets no exception
\* out of the deferred callback.
FactoryThrowCaught ==
  [][(queue # <<>> /\ CallsUserFactory(S, Head(queue)) /\ Tick("throws")) =>
       LET c == Head(queue).c
       IN /\ finished'[c] = Outcome(Boom, Null)
          /\ currentTask'[c] = 0
          /\ kind' = kind
          /\ uncaught' = uncaught
          /\ thrown' = Undefined]_vars

\* C12 witness: the first task was rejected with "E", onReject threw "boom"
\* on the deferred turn, and the composite is rejected with "boom".
FactoryThrewCompositeRejected ==
  \E c \in Ids :
    /\ kind[c] = "comp"
    /\ factoryCalls[c] =
         <<[which |-> "onReject", arg |-> Str("E"), does |-> "throws"]>>
    /\ finished[c] = Outcome(Boom, Null)
    /\ currentTask[c] = 0
    /\ ~uncaught

\* C13: Task.start with a starter that throws returns normally, with the task
\* Finished: with (thrown value, null) when the starter had not called resolve
\* or reject before, else with the outcome of its first call; no abort
\* function is kept. A listener such a task has was called with (thrown
\* value, null).
StarterThrowCaught ==
  /\ [][\A st \in Starters :
          (st.throws # Undefined /\ DoStart(st)) =>
            /\ thrown' = Undefined
            /\ kind'[1] = "prim"
            /\ abort'[1] = "none"
            /\ finished'[1] = IF st.sync = <<>> THEN Outcome(st.throws, Null)
                              ELSE FirstCompletion(st)]_vars
  /\ [](\A t \in Ids :
          (RejectedWith(t, Boom) /\ onFinish[t] # NoListener) =>
             listenerCalls[t] = << <<Boom, Null>> >>)

\* C13 witness: the starter threw "boom", finally(cleanup) was called on the
\* task afterwards, its listener got ("boom", null), and cleanup has run.
StarterThrewListenerGotBoom ==
  /\ kind[1] = "prim"
  /\ finished[1] = Outcome(Boom, Null)
  /\ onFinish[1] = FinallyListener
  /\ listenerCalls[1] = << <<Boom, Null>> >>
  /\ cleanupCalls[1] = 1

\* C14: the step in which a continuation factory is called and returns no
\* task (a caller's factory returning undefined, or the resolve / reject of an
\* outer composite) takes the composite from Running to resolved with
\* undefined: (null, undefined), no continuation task recorded, none started.
EmptyContinuationResolvesUndefined ==
  [][\A c \in Ids :
       (/\ factoryCalls'[c] # factoryCalls[c]
        /\ factoryCalls'[c][Len(factoryCalls'[c])].does \in
             {"returnsNothing", "resolveCompositeTask", "rejectCompositeTask"}) =>
         /\ ~cancelled[c]
         /\ finished[c] = Undefined
         /\ finished'[c] = Outcome(Null, Undefined)
         /\ currentTask'[c] = 0
         /\ kind' = kind]_vars

\* C14 witness: the first task was rejected with "E", onReject returned
\* nothing, and the composite is resolved with undefined.
EmptyContinuationResolved ==
  \E c \in Ids :
    /\ kind[c] = "comp"
    /\ factoryCalls[c] =
         <<[which |-> "onReject", arg |-> Str("E"), does |-> "returnsNothing"]>>
    /\ finished[c] = Outcome(Null, Undefined)

\* C15 (as claimed): the composite finishes in the step in which its
\* continuation task does, with no deferred turn between the two: in every
\* state, an uncancelled composite subscribed to a continuation task that is
\* Finished (with an error other than 'cancelled') is Finished.
CompositeFinishesWithContinuation ==
  \A c \in Ids :
    (/\ kind[c] = "comp"
     /\ ~cancelled[c]
     /\ finished[firstTask[c]] # Undefined
     /\ currentTask[c] # 0
     /\ onFinish[currentTask[c]].k = "compose"
     /\ finished[currentTask[c]] # Undefined
     /\ finished[currentTask[c]].err # Cancelled)
    => finished[c] # Undefined

\* C15, what the code does (a probe, not the claim): the composite on the
\* continuation task finishes only in a deferred step of the composite line
\* 212 builds, which is a turn of the queue after the one in which the
\* continuation task finished.
CompositeFinishesOneTurnLater ==
  [][\A c \in Ids :
       (/\ kind[c] = "comp"
        /\ finished[firstTask[c]] # Undefined
        /\ currentTask[c] # 0
        /\ finished[c] = Undefined
        /\ finished'[c] # Undefined
        /\ ~cancelled'[c]) =>
         /\ finished[currentTask[c]] # Undefined
         /\ queue # <<>> /\ Head(queue).k = "step"
         /\ kind[Head(queue).c] = "link"
         /\ SomeTick]_vars


\* C16: cancel() on a Running task writes the outcome and notifies the
\* listener before it invokes abort: every time a task's abort was invoked,
\* the task was Finished with ('cancelled', null) already, and a listener it
\* had then had been called with ('cancelled', null) already; a task whose
\* abort was invoked keeps that outcome, whatever the abort function or the
\* starter resolve or reject afterwards.
CancelFinishesBeforeAbort ==
  /\ [](\A t \in Ids :
          /\ \A i \in 1..Len(abortSaw[t]) :
               /\ abortSaw[t][i].finished = Outcome(Cancelled, Null)
               /\ abortSaw[t][i].onFinish # NoListener =>
                    abortSaw[t][i].listenerCalls = << <<Cancelled, Null>> >>
          /\ abortCalls[t] > 0 => finished[t] = Outcome(Cancelled, Null))
  /\ [][\A t \in Ids, a \in {"resolves", "rejects"} :
          (t \in Held /\ CancelDoing(t, a)) =>
             \A u \in Ids :
               finished'[u] \in {finished[u], Outcome(Cancelled, Null)}]_vars

\* C16 witness: a primitive task with a listener and an abort function was
\* cancelled while Running: when abort was invoked the listener had been
\* called with ('cancelled', null).
AbortSawCancelledOutcome ==
  \E t \in Ids :
    /\ kind[t] = "prim"
    /\ abort[t] = "user"
    /\ Len(abortSaw[t]) = 1
    /\ abortSaw[t][1].finished = Outcome(Cancelled, Null)
    /\ abortSaw[t][1].onFinish = FinallyListener
    /\ abortSaw[t][1].listenerCalls = << <<Cancelled, Null>> >>
    /\ finished[t] = Outcome(Cancelled, Null)

\* The continuation tasks of composite c: the tasks line 212 subscribed c to.
ContinuationTasks(c) ==
  {firstTask[l] : l \in {x \in Ids : kind[x] = "link" /\ onResolve[x] = ResolveCompositeTask(c)}}

\* C17 (as claimed): the composite's currentTask is null from the moment the
\* first task finishes until a continuation task is recorded, and null again
\* once the continuation task has finished: in every state where the first
\* task and the continuation task are both Finished, currentTask is null.
CurrentTaskClearedWhenDone ==
  \A c \in Ids :
    kind[c] = "comp" =>
      /\ (finished[firstTask[c]] # Undefined /\ StepQueued(c)) => currentTask[c] = 0
      /\ \A n \in ContinuationTasks(c) :
           (finished[firstTask[c]] # Undefined /\ finished[n] # Undefined) =>
              currentTask[c] = 0

\* C17, the part the code keeps (a probe, not the claim): currentTask is null
\* from the first task's finish until the deferred step has run, and from
\* then on it is what the factory returned.
CurrentTaskNullUntilContinuation ==
  \A c \in Ids :
    kind[c] = "comp" =>
      /\ (finished[firstTask[c]] # Undefined /\ StepQueued(c)) => currentTask[c] = 0
      /\ \A n \in ContinuationTasks(c) : currentTask[c] = n

\* C18 (as claimed): a first task that finished through reject(e), e any value
\* but 'cancelled' (null included), is a failure for its composite: the only
\* continuation ever called is onReject, with e; and once the step of the
\* uncancelled composite has run, onReject was called, or, onReject being
\* absent, the composite is rejected with e and nothing was called.
RejectionTakesFailureBranch ==
  \A c \in Ids, e \in Errors \ {Cancelled} :
    (kind[c] = "comp" /\ RejectedWith(firstTask[c], e)) =>
      /\ \A i \in 1..Len(factoryCalls[c]) :
           factoryCalls[c][i].which = "onReject" /\ factoryCalls[c][i].arg = e
      /\ (StepRan(c) /\ ~cancelled[c]) =>
           IF onReject[c] = Absent
             THEN finished[c] = Outcome(e, Null) /\ factoryCalls[c] = <<>>
             ELSE factoryCalls[c] # <<>>

\* C18, the part the code keeps (a probe, not the claim): the same, for the
\* errors that are neither null nor undefined.
PresentErrorTakesFailureBranch ==
  \A c \in Ids, e \in {x \in Errors : ~LooseNull(x)} \ {Cancelled} :
    (kind[c] = "comp" /\ RejectedWith(firstTask[c], e)) =>
      /\ \A i \in 1..Len(factoryCalls[c]) :
           factoryCalls[c][i].which = "onReject" /\ factoryCalls[c][i].arg = e
      /\ (StepRan(c) /\ ~cancelled[c]) =>
           IF onReject[c] = Absent
             THEN finished[c] = Outcome(e, Null) /\ factoryCalls[c] = <<>>
             ELSE factoryCalls[c] # <<>>

\* The first task was rejected with "E" and onReject("E") was called.
OnRejectCalledWithE ==
  \E c \in Ids :
    /\ kind[c] = "comp"
    /\ RejectedWith(firstTask[c], Str("E"))
    /\ factoryCalls[c] # <<>>
    /\ factoryCalls[c][1].which = "onReject"
    /\ factoryCalls[c][1].arg = Str("E")

\* C19 (as claimed): once cancel() was called on a Running composite (which
\* is what sets its flag), no task under it is Running: not the first task,
\* not the task recorded as current, not a task it was subscribed to.
CancelLeavesNothingRunning ==
  \A c \in Ids :
    (kind[c] = "comp" /\ cancelled[c]) =>
      /\ finished[firstTask[c]] # Undefined
      /\ currentTask[c] # 0 => finished[currentTask[c]] # Undefined
      /\ \A n \in ContinuationTasks(c) : finished[n] # Undefined

\* C19, the part the code keeps (a probe, not the claim): a cancel() made by a
\* caller outside the continuation factory leaves no task of the composite
\* Running.
CallerCancelLeavesNothingRunning ==
  [][\A c \in Ids :
       (kind[c] = "comp" /\ finished[c] = Undefined /\ DoCancel(c)) =>
          /\ cancelled'[c]
          /\ finished'[firstTask[c]] # Undefined
          /\ currentTask'[c] # 0 => finished'[currentTask'[c]] # Undefined
          /\ \A n \in ContinuationTasks(c) : finished'[n] # Undefined]_vars

\* Composite c is subscribed to the task recorded as current: the task's
\* listener is the one of the composite line 212 built with c's resolve and
\* reject.
Subscribed(c) ==
  /\ currentTask[c] # 0
  /\ onFinish[currentTask[c]].k = "compose"
  /\ onResolve[onFinish[currentTask[c]].c] = ResolveCompositeTask(c)
  /\ onReject[onFinish[currentTask[c]].c] = RejectCompositeTask(c)

\* C20 (as claimed): no deferred callback ends by an exception, and after the
\* deferred step of a composite has run the composite is Finished or
\* subscribed to the task its factory returned.
StepNeverStrands ==
  /\ ~uncaught
  /\ \A c \in Ids :
       (kind[c] = "comp" /\ StepRan(c)) => (finished[c] # Undefined \/ Subscribed(c))

\* C20, the part the code keeps (a probe, not the claim): the same for the
\* steps whose factory returns a task without a listener.
StepWithFreshTaskSubscribes ==
  \A c \in Ids :
    (/\ kind[c] = "comp"
     /\ StepRan(c)
     /\ \A i \in 1..Len(factoryCalls[c]) : factoryCalls[c][i].does # "taskWithFinally")
    => (finished[c] # Undefined \/ Subscribed(c))

====
